---- MODULE Spec2Model ----
(***************************************************************************)
(* A model of the Tabs component of src/src/tabs-motion/index.js: its      *)
(* props, the element tree it renders from them, the commit of the         *)
(* active-tab ref, the three post-render effects (accent measurement and   *)
(* the two scrollIntoView effects), and the click and keydown handlers of  *)
(* a tab.                                                                  *)
(*                                                                         *)
(* Positions in `children` are 1-based here; the JavaScript index of the   *)
(* child at position i is i - 1.  DOM nodes of the tab list are numbered   *)
(* 1 .. NumTabs (the tab buttons, in order) and NumTabs + 1 (the accent    *)
(* element, always the last child); childNodes[n] is node n + 1.  Node 0   *)
(* stands for "no node" (a null ref, nothing focused).                     *)
(***************************************************************************)
EXTENDS Integers, Sequences, FiniteSets

VARIABLES
  children,           \* props.children, flattened: the children in the order
                      \* React.Children.map visits them
  childrenIsArray,    \* props.children is an array (FALSE: one bare element)
  topLength,          \* length of that array: its entries may be nested
                      \* arrays, of several children or of none
  activeTabKey,       \* prop
  disabled,           \* prop
  keyboardActivation, \* prop
  orientation,        \* prop
  direction,          \* theme.direction
  mounted,            \* the first display pass has committed
  accentLayout,       \* useState: [length, distance]
  accentSeen,         \* the boxes the accent has been styled with since the
                      \* first display: [rtl, ltr, low, high], how far it
                      \* has reached from the right and from the left edge
                      \* and its least and greatest shift along x
  activeTabRef,       \* activeTabRef.current: a tab node, or 0
  pendingEffects,     \* effects scheduled by the last commit, not yet run
  scrollLog,          \* scrollIntoView calls of the last effects flush
  focus,              \* document.activeElement within the tab list, or 0
  last                \* what the last step did (history)

vars == <<children, childrenIsArray, topLength, activeTabKey, disabled, keyboardActivation,
          orientation, direction, mounted, accentLayout, accentSeen,
          activeTabRef, pendingEffects, scrollLog, focus, last>>

----------------------------------------------------------------------------
\* Bounds of the model.

\* Longest children list.
MaxChildren == 3

\* Explicit `key`s a child may carry; "" is a child without a key.
ChildKeys == {"", "1"}

\* Values the parent may pass as activeTabKey ("zz" matches no tab).
ActiveKeys == {"0", "1", "zz"}

\* Key codes delivered to a tab: left, up, right, down.
KeyCodes == {37, 38, 39, 40}

----------------------------------------------------------------------------
\* Constants of the source.

ORIENTATION == [vertical |-> "vertical", horizontal |-> "horizontal"]

KEYBOARD_ACTIVATION == [automatic |-> "automatic", manual |-> "manual"]

\* The value of an out-of-range array read.
Undefined == "undefined"

\* children.length - 1 when children is a single element: undefined - 1.
NaN == -1

getTabId(key) == "tab_" \o key

getTabPanelId(key) == "tabpanel_" \o key

----------------------------------------------------------------------------
\* Children and their keys.

NullChild == [present |-> FALSE, key |-> ""]

ChildSet == {NullChild} \cup {[present |-> TRUE, key |-> k] : k \in ChildKeys}

\* String(index) for the indices a children list can have.
Digits == <<"0", "1", "2", "3", "4", "5", "6", "7", "8", "9">>

String(index) == Digits[index + 1]

\* child.key || String(index), for the child at position i.
ChildKey(i) == IF children[i].key # "" THEN children[i].key ELSE String(i - 1)

\* Positions of the children that are elements (not null).
Present == {i \in 1..Len(children) : children[i].present}

\* The tab buttons rendered, as DOM nodes.
NumTabs == Cardinality(Present)

\* The position, from i on, of the d-th child that is an element.
RECURSIVE NthPresent(_, _)
NthPresent(i, d) ==
  IF children[i].present
  THEN IF d = 1 THEN i ELSE NthPresent(i + 1, d - 1)
  ELSE NthPresent(i + 1, d)

\* The position in children of the child rendered as tab node d.
ChildOfNode(d) == NthPresent(1, d)

\* The tab node rendered for the child at position i.
NodeOfChild(i) == Cardinality({j \in 1..i : children[j].present})

\* The accent element: the last child of the tab list.
AccentNode == NumTabs + 1

\* tabKeys as it would be if the null results were kept in the array (one
\* entry per child): a variant that C2 must tell from tabKeys.
tabKeysSparse ==
  [i \in 1..Len(children) |-> IF children[i].present THEN ChildKey(i) ELSE "null"]

\* tabKeys: React.Children.map over children; the callback's null results
\* (for null children) are left out of the array it returns.
tabKeys == [d \in 1..NumTabs |-> ChildKey(ChildOfNode(d))]

\* tabKeys[n] for a JavaScript index n.
tabKeysAt(n) ==
  LET keys == tabKeys
  IN  IF n + 1 \in DOMAIN keys THEN keys[n + 1] ELSE Undefined

\* children.length as the key handler reads it: the length of the top-level
\* array, not the number of children React.Children.map visits.
ChildrenLength == IF childrenIsArray THEN topLength ELSE NaN

----------------------------------------------------------------------------
\* The rendered tree.

\* key of the tab rendered for the child at position i: tabKeys[index].
TabKey(i) == tabKeysAt(i - 1)

TabIsActive(i) == TabKey(i) = activeTabKey

TabId(i) == getTabId(TabKey(i))

TabAriaSelected(i) == TabIsActive(i)

TabAriaControls(i) == getTabPanelId(TabKey(i))

TabTabIndex(i) == IF TabIsActive(i) THEN "0" ELSE "-1"

\* The tab passes activeTabRef as its ref.
TabHasRef(i) == TabIsActive(i)

\* The panel's key as it would be if read from tabKeys like the tab's: a
\* variant that C6 must tell from PanelKey.
PanelKeyFromTabKeys(i) == tabKeysAt(i - 1)

\* key of the panel rendered for the child at position i.
PanelKey(i) == ChildKey(i)

PanelIsActive(i) == PanelKey(i) = activeTabKey

PanelId(i) == getTabPanelId(PanelKey(i))

PanelAriaExpanded(i) == PanelIsActive(i)

PanelHidden(i) == ~PanelIsActive(i)

\* Tab nodes whose tab passes activeTabRef as ref, under active key k.
RefNodes(k) ==
  LET keys == tabKeys
  IN  {NodeOfChild(i) : i \in {c \in Present : c \in DOMAIN keys /\ keys[c] = k}}

----------------------------------------------------------------------------
\* Layout of the committed tab list, read by the accent effect.  Tabs are
\* laid out without gaps along the primary axis: tab d is 2d + 1 wide in a
\* row and 2d + 2 high in a column, and the list is as wide as its content.

\* Thickness of the accent and of the padding that holds it, in px.
AccentThickness == 5

RowWidth(d) == 2 * d + 1

ColumnHeight(d) == 2 * d + 2

\* Width of the first d tabs of a row, height of the first d of a column.
RECURSIVE RowExtent(_)
RowExtent(d) == IF d = 0 THEN 0 ELSE RowExtent(d - 1) + RowWidth(d)

RECURSIVE ColumnExtent(_)
ColumnExtent(d) == IF d = 0 THEN 0 ELSE ColumnExtent(d - 1) + ColumnHeight(d)

clientWidth(d) ==
  IF orientation = ORIENTATION.horizontal THEN RowWidth(d) ELSE RowWidth(NumTabs)

clientHeight(d) ==
  IF orientation = ORIENTATION.horizontal THEN ColumnHeight(1) ELSE ColumnHeight(d)

\* Width of the list's own content: the row of tabs, or the column, which
\* is as wide as its widest tab and 0 wide without a tab.
contentWidth ==
  IF orientation = ORIENTATION.horizontal THEN RowExtent(NumTabs)
  ELSE IF NumTabs = 0 THEN 0 ELSE RowWidth(NumTabs)

Max(a, b) == IF a >= b THEN a ELSE b

Min(a, b) == IF a <= b THEN a ELSE b

\* The width and the shift along x that the accent's style asks for: width
\* $length and translateX($distance) in a row, width 5px and translateY in a
\* column.
AccentWidth(orient, layout) ==
  IF orient = ORIENTATION.horizontal THEN layout.length ELSE AccentThickness

AccentShift(orient, layout) ==
  IF orient = ORIENTATION.horizontal THEN layout.distance ELSE 0

\* The boxes of the accent under one style: how far it reaches from the
\* right edge when it is held there (right 0), how far from the left edge
\* when it is held there (left 0), and its shift along x.
AccentBox(orient, layout) ==
  [rtl  |-> AccentWidth(orient, layout) - AccentShift(orient, layout),
   ltr  |-> AccentWidth(orient, layout) + AccentShift(orient, layout),
   low  |-> AccentShift(orient, layout),
   high |-> AccentShift(orient, layout)]

\* A commit that styles the accent.  Every property of the accent is in
\* transition for theme.animation.timing400, a duration the component does
\* not fix, so after a commit the accent can still be drawn anywhere between
\* the boxes it has been given; its width and its shift move together.
StyleAccent(seen, orient, layout) ==
  LET box == AccentBox(orient, layout)
  IN  [rtl  |-> Max(seen.rtl, box.rtl),
       ltr  |-> Max(seen.ltr, box.ltr),
       low  |-> Min(seen.low, box.low),
       high |-> Max(seen.high, box.high)]

\* How far past the end of the list the accent can be drawn.  It is
\* absolutely positioned at the list's start edge in a row (left 0, or right
\* 0 when right-to-left) and at its end edge in a column, and only what
\* sticks out at the end edge is scrollable.
accentOverflow ==
  IF orientation = ORIENTATION.horizontal
  THEN IF direction # "rtl"
       THEN Max(0, accentSeen.ltr - contentWidth)
       ELSE Max(0, accentSeen.rtl - contentWidth)
  ELSE IF direction # "rtl" THEN Max(0, accentSeen.high)
       ELSE Max(0, 0 - accentSeen.low)

\* The values a read of parentElement.scrollWidth can give: the content (and
\* in a column the padding that holds the accent), plus as much of the
\* accent as is drawn past the end at the moment of the read.
scrollWidth ==
  LET inner == IF orientation = ORIENTATION.horizontal THEN contentWidth
               ELSE contentWidth + AccentThickness
  IN  inner .. (inner + accentOverflow)

\* In a right-to-left row the first tab is the rightmost one; a
\* right-to-left column has its padding on the left.
offsetLeft(d) ==
  IF orientation = ORIENTATION.horizontal
  THEN IF direction # "rtl" THEN RowExtent(d - 1)
       ELSE contentWidth - RowExtent(d)
  ELSE IF direction # "rtl" THEN 0 ELSE AccentThickness

offsetTop(d) ==
  IF orientation = ORIENTATION.horizontal THEN 0 ELSE ColumnExtent(d - 1)

\* The object the accent effect passes to setAccentLayout for tab node d,
\* having read width as parentElement.scrollWidth.
Measure(d, width) ==
  [length |->
     IF orientation = ORIENTATION.horizontal THEN clientWidth(d) ELSE clientHeight(d),
   distance |->
     IF orientation = ORIENTATION.horizontal
     THEN IF direction # "rtl" THEN offsetLeft(d)
          ELSE -1 * (width - offsetLeft(d) - clientWidth(d))
     ELSE offsetTop(d)]

----------------------------------------------------------------------------
\* Commit of activeTabRef: a tab that stops passing the ref detaches it
\* (current = null), then each tab that starts passing it attaches itself,
\* in document order.

Last(S) == CHOOSE d \in S : \A e \in S : e <= d

CommitRef(ref, old, new) ==
  LET detached == IF old \ new # {} THEN 0 ELSE ref
  IN  IF new \ old # {} THEN Last(new \ old) ELSE detached

----------------------------------------------------------------------------
\* History records.

NoStep == [kind |-> "none", keyCode |-> 0, target |-> 0, focusBefore |-> 0,
           calls |-> <<>>, threw |-> FALSE, ran |-> {}]

FocusCall(d) == [op |-> "focus", node |-> d, key |-> ""]

SelectCall(k) == [op |-> "onSelect", node |-> 0, key |-> k]

ScrollCall(d, behavior, block, inline) ==
  [node |-> d, behavior |-> behavior, block |-> block, inline |-> inline]

----------------------------------------------------------------------------
\* Initial states: the component has been given its props and has not been
\* displayed yet.

ChildrenLists == UNION {[1..n -> ChildSet] : n \in 0..MaxChildren}

Init ==
  /\ children \in ChildrenLists
  /\ childrenIsArray \in BOOLEAN
  /\ ~childrenIsArray => (Len(children) = 1 /\ children[1].present)
  /\ topLength \in 0..MaxChildren
  /\ (childrenIsArray /\ Len(children) > 0) => topLength >= 1
  /\ (~childrenIsArray \/ Len(children) = 0) => topLength = 0
  /\ activeTabKey \in ActiveKeys
  /\ disabled \in BOOLEAN
  /\ keyboardActivation \in {KEYBOARD_ACTIVATION.automatic, KEYBOARD_ACTIVATION.manual}
  /\ orientation \in {ORIENTATION.horizontal, ORIENTATION.vertical}
  /\ direction \in {"ltr", "rtl"}
  /\ mounted = FALSE
  /\ accentLayout = [length |-> 0, distance |-> 0]
  /\ accentSeen = [rtl |-> 0, ltr |-> 0, low |-> 0, high |-> 0]
  /\ activeTabRef = 0
  /\ pendingEffects = {}
  /\ scrollLog = <<>>
  /\ focus = 0
  /\ last = NoStep

----------------------------------------------------------------------------
\* Display passes.

\* First display: render, commit the refs, schedule all three effects.
Mount ==
  /\ ~mounted
  /\ mounted' = TRUE
  /\ activeTabRef' = CommitRef(activeTabRef, {}, RefNodes(activeTabKey))
  /\ pendingEffects' = {"accent", "mountScroll", "keyScroll"}
  /\ scrollLog' = <<>>
  /\ accentSeen' = AccentBox(orientation, accentLayout)
  /\ last' = [NoStep EXCEPT !.kind = "mount"]
  /\ UNCHANGED <<children, childrenIsArray, topLength, activeTabKey, disabled,
                 keyboardActivation, orientation, direction, accentLayout, focus>>

\* A later display pass with new props; the effects of the pass before have
\* run.  Only the effects whose dependency [activeTabKey] changed are
\* scheduled.
Update(key, orient, dir) ==
  /\ mounted
  /\ pendingEffects = {}
  /\ activeTabKey' = key
  /\ orientation' = orient
  /\ direction' = dir
  /\ activeTabRef' = CommitRef(activeTabRef, RefNodes(activeTabKey), RefNodes(key))
  /\ pendingEffects' = IF key # activeTabKey THEN {"accent", "keyScroll"} ELSE {}
  /\ scrollLog' = <<>>
  /\ accentSeen' = StyleAccent(accentSeen, orient, accentLayout)
  /\ last' = [NoStep EXCEPT !.kind = "update"]
  /\ UNCHANGED <<children, childrenIsArray, topLength, disabled, keyboardActivation,
                 mounted, accentLayout, focus>>

\* The effects of the last pass, in the order the component declares them,
\* and the re-render that setAccentLayout causes (which schedules nothing).
FlushEffects ==
  /\ pendingEffects # {}
  /\ \E width \in scrollWidth :
       accentLayout' =
         IF "accent" \in pendingEffects /\ activeTabRef # 0
         THEN Measure(activeTabRef, width) ELSE accentLayout
  /\ accentSeen' = StyleAccent(accentSeen, orientation, accentLayout')
  /\ scrollLog' =
       (IF "mountScroll" \in pendingEffects /\ activeTabRef # 0
        THEN <<ScrollCall(activeTabRef, "auto", "start", "center")>> ELSE <<>>)
       \o
       (IF "keyScroll" \in pendingEffects /\ activeTabRef # 0
        THEN <<ScrollCall(activeTabRef, "smooth", "nearest", "nearest")>> ELSE <<>>)
  /\ pendingEffects' = {}
  /\ last' = [NoStep EXCEPT !.kind = "effects", !.ran = pendingEffects]
  /\ UNCHANGED <<children, childrenIsArray, topLength, activeTabKey, disabled,
                 keyboardActivation, orientation, direction, mounted,
                 activeTabRef, focus>>

----------------------------------------------------------------------------
\* The handlers of a tab button.  event.target is the focused tab, node d.

\* event.target.previousSibling is a node.
hasPreviousSibling(d) == d > 1

\* event.target.nextSibling: the accent element follows the last tab.
nextSibling(d) == d + 1

\* parentNode.lastElementChild
lastElementChild == AccentNode

\* nextActiveIndex as the handler computes it for key code 37 or 39, from
\* the index the tab was rendered with.
nextActiveIndex(keyCode, d) ==
  LET index == ChildOfNode(d) - 1
  IN  IF keyCode = 37
      THEN IF hasPreviousSibling(d) THEN index - 1
           ELSE IF ChildrenLength = NaN THEN NaN ELSE ChildrenLength - 1
      ELSE IF nextSibling(d) # lastElementChild THEN index + 1
           ELSE 0

\* parentNode.childNodes[n]: a node, or 0 for undefined.
childNodes(n) == IF n # NaN /\ n >= 0 /\ n + 1 <= AccentNode THEN n + 1 ELSE 0

\* The accent element is a div without tabindex: focus() on it moves nothing.
focusable(node) == node \in 1..NumTabs

\* The user puts focus on tab d (pointer or sequential navigation).  Pending
\* effects are flushed before a discrete event is dispatched.
Focus(d) ==
  /\ mounted
  /\ pendingEffects = {}
  /\ d \in 1..NumTabs
  /\ focus # d
  /\ focus' = d
  /\ last' = [NoStep EXCEPT !.kind = "focus"]
  /\ UNCHANGED <<children, childrenIsArray, topLength, activeTabKey, disabled,
                 keyboardActivation, orientation, direction, mounted,
                 accentLayout, accentSeen, activeTabRef, pendingEffects, scrollLog>>

\* onClick of tab d.
Click(d) ==
  /\ mounted
  /\ pendingEffects = {}
  /\ d \in 1..NumTabs
  /\ last' = [NoStep EXCEPT !.kind = "click", !.target = d, !.focusBefore = focus,
                            !.calls = <<SelectCall(TabKey(ChildOfNode(d)))>>]
  /\ UNCHANGED <<children, childrenIsArray, topLength, activeTabKey, disabled,
                 keyboardActivation, orientation, direction, mounted,
                 accentLayout, accentSeen, activeTabRef, pendingEffects, scrollLog, focus>>

\* onKeyDown of the focused tab.
KeyDown(keyCode) ==
  /\ mounted
  /\ pendingEffects = {}
  /\ focus \in 1..NumTabs
  /\ LET step == [NoStep EXCEPT !.kind = "keydown", !.keyCode = keyCode,
                                !.target = focus, !.focusBefore = focus]
         n    == nextActiveIndex(keyCode, focus)
         node == childNodes(n)
     IN  IF keyCode = 37 \/ keyCode = 39
         THEN IF node = 0
              THEN \* undefined.focus(): TypeError, the handler ends here
                   /\ focus' = focus
                   /\ last' = [step EXCEPT !.threw = TRUE]
              ELSE /\ focus' = IF focusable(node) THEN node ELSE focus
                   /\ last' = [step EXCEPT !.calls =
                        <<FocusCall(node)>> \o
                        (IF keyboardActivation = KEYBOARD_ACTIVATION.automatic
                         THEN <<SelectCall(tabKeysAt(n))>> ELSE <<>>)]
         ELSE /\ focus' = focus
              /\ last' = step
  /\ UNCHANGED <<children, childrenIsArray, topLength, activeTabKey, disabled,
                 keyboardActivation, orientation, direction, mounted,
                 accentLayout, accentSeen, activeTabRef, pendingEffects, scrollLog>>

----------------------------------------------------------------------------

Next ==
  \/ Mount
  \/ \E key \in ActiveKeys, orient \in {ORIENTATION.horizontal, ORIENTATION.vertical},
        dir \in {"ltr", "rtl"} : Update(key, orient, dir)
  \/ FlushEffects
  \/ \E d \in 1..MaxChildren : Focus(d)
  \/ \E d \in 1..MaxChildren : Click(d)
  \/ \E keyCode \in KeyCodes : KeyDown(keyCode)

Spec == Init /\ [][Next]_vars

\* The handlers alone, over a component displayed with any props.
NextNav ==
  \/ Mount
  \/ FlushEffects
  \/ \E d \in 1..MaxChildren : Focus(d)
  \/ \E d \in 1..MaxChildren : Click(d)
  \/ \E keyCode \in KeyCodes : KeyDown(keyCode)

SpecNav == Init /\ [][NextNav]_vars

\* The display passes alone.
NextDisplay ==
  \/ Mount
  \/ \E key \in ActiveKeys, orient \in {ORIENTATION.horizontal, ORIENTATION.vertical},
        dir \in {"ltr", "rtl"} : Update(key, orient, dir)
  \/ FlushEffects

SpecDisplay == Init /\ [][NextDisplay]_vars

----------------------------------------------------------------------------
\* Vocabulary of the properties.

\* The keys of the tabs as the parent gave them: child.key || String(index).
KeySet == {ChildKey(i) : i \in Present}

KeysUnique == \A i, j \in Present : ChildKey(i) = ChildKey(j) => i = j

NoNullChild == Present = 1..Len(children)

ArrowPress == last.kind = "keydown" /\ last.keyCode \in {37, 39}

SelectCalls == {n \in 1..Len(last.calls) : last.calls[n].op = "onSelect"}

\* Tab nodes after and before node d, circularly.
NextTab(d) == (d % NumTabs) + 1

PreviousTab(d) == ((d - 2) % NumTabs) + 1

\* Tabs and panels rendered as active.
ActiveTabs == {i \in Present : TabAriaSelected(i)}

ActivePanels == {i \in Present : PanelAriaExpanded(i)}

DefaultLayout == [length |-> 0, distance |-> 0]

\* children is an array of elements with no array nested in it.
FlatArray == childrenIsArray /\ topLength = Len(children)

----------------------------------------------------------------------------
\* C1: with N >= 2 tabs, one press of the "next" arrow key (39) on tab i
\* moves focus to tab (i + 1) mod N and one press of the "previous" arrow
\* key (37) to tab (i - 1) mod N, wrapping at both ends, and focus() is
\* never called on the accent element.
C1_ArrowKeysMoveFocusCircularly ==
  (ArrowPress /\ NumTabs >= 2) =>
    /\ ~last.threw
    /\ focus = IF last.keyCode = 39 THEN NextTab(last.target)
               ELSE PreviousTab(last.target)
    /\ \A n \in 1..Len(last.calls) :
         last.calls[n].op = "focus" => last.calls[n].node # AccentNode

----------------------------------------------------------------------------
\* C2: an arrow-key press that moves focus calls, in this order, focus() on
\* the new tab and then, in automatic activation only, onSelect exactly once
\* with the key of the tab that has just received focus (child.key, or its
\* index as a string); in manual activation it calls focus() and nothing
\* else.
C2_AutomaticSelectsFocusedTab ==
  (last.kind = "keydown" /\ focus # last.focusBefore) =>
    last.calls =
      <<FocusCall(focus)>> \o
      (IF keyboardActivation = KEYBOARD_ACTIVATION.automatic
       THEN <<SelectCall(ChildKey(ChildOfNode(focus)))>> ELSE <<>>)

\* An automatic press on the last of several tabs wrapped focus to the first
\* and selected it.
C2_Witness ==
  /\ last.kind = "keydown" /\ last.keyCode = 39
  /\ keyboardActivation = KEYBOARD_ACTIVATION.automatic
  /\ NumTabs >= 2 /\ last.focusBefore = NumTabs /\ focus = 1
  /\ Len(last.calls) = 2 /\ last.calls[2].op = "onSelect"

----------------------------------------------------------------------------
\* C3: with exactly one tab, pressing either arrow navigation key on it is a
\* no-op in both activation modes: focus stays, onSelect is not invoked and
\* no error is raised.
C3_SingleTabArrowIsNoOp ==
  (ArrowPress /\ NumTabs = 1) =>
    /\ focus = last.focusBefore
    /\ SelectCalls = {}
    /\ ~last.threw

----------------------------------------------------------------------------
\* C4: while disabled is true, no click and no arrow-key press on a tab
\* invokes onSelect or moves focus.
C4_DisabledBlocksInteraction ==
  (disabled /\ last.kind \in {"click", "keydown"}) =>
    /\ SelectCalls = {}
    /\ focus = last.focusBefore

----------------------------------------------------------------------------
\* C5: the keys that move focus to the adjacent tab are left/right (37/39)
\* when orientation is horizontal and up/down (38/40) when it is vertical.
\* Stated for flat children arrays without null entries and N >= 2 tabs.
C5_ArrowKeysFollowOrientation ==
  (last.kind = "keydown" /\ NumTabs >= 2 /\ NoNullChild /\ FlatArray) =>
    /\ (orientation = ORIENTATION.horizontal /\ last.keyCode \in {37, 39}) =>
         focus = IF last.keyCode = 39 THEN NextTab(last.target)
                 ELSE PreviousTab(last.target)
    /\ (orientation = ORIENTATION.vertical /\ last.keyCode \in {38, 40}) =>
         focus = IF last.keyCode = 40 THEN NextTab(last.target)
                 ELSE PreviousTab(last.target)

----------------------------------------------------------------------------
\* C6: in every rendered state where the tabs' keys are unique and
\* activeTabKey is the key of one of them, exactly one panel has
\* aria-expanded true and is not hidden, its id is tabpanel_<activeTabKey>,
\* every other panel has aria-expanded false and is hidden, and for every
\* panel hidden is the negation of aria-expanded.
C6_ExactlyOnePanelExpanded ==
  (mounted /\ KeysUnique /\ activeTabKey \in KeySet) =>
    /\ Cardinality({i \in Present : PanelAriaExpanded(i) /\ ~PanelHidden(i)}) = 1
    /\ \A i \in Present :
         /\ PanelHidden(i) = ~PanelAriaExpanded(i)
         /\ PanelAriaExpanded(i) = (PanelId(i) = getTabPanelId(activeTabKey))

\* Three panels keyed "0", "1", "2" are rendered with activeTabKey "1".
C6_Witness ==
  /\ mounted /\ KeysUnique /\ NumTabs = 3 /\ NoNullChild
  /\ activeTabKey = "1" /\ KeySet = {"0", "1", "2"}
  /\ PanelAriaExpanded(2) /\ PanelHidden(1) /\ PanelHidden(3)

----------------------------------------------------------------------------
\* C7: roving tabindex: exactly one tab has tabindex 0, the tab whose key
\* equals activeTabKey; every other tab has tabindex -1; that tab is the
\* only one with aria-selected true and the one activeTabRef points to.
\* Stated for the rendered states where the tabs' keys are unique and
\* activeTabKey is the key of one of them.
C7_RovingTabIndex ==
  (mounted /\ KeysUnique /\ activeTabKey \in KeySet) =>
    LET i == CHOOSE c \in Present : ChildKey(c) = activeTabKey
    IN  /\ {c \in Present : TabTabIndex(c) = "0"} = {i}
        /\ \A c \in Present \ {i} : TabTabIndex(c) = "-1"
        /\ {c \in Present : TabAriaSelected(c)} = {i}
        /\ activeTabRef = NodeOfChild(i)

----------------------------------------------------------------------------
\* C8: after any sequence of display passes, once the effects of the latest
\* pass have run, accentLayout is the geometry of the tab marked active:
\* length its width (horizontal) or height (vertical); distance its
\* offsetLeft (horizontal, left-to-right), minus (scrollWidth - offsetLeft -
\* width) (horizontal, right-to-left), or its offsetTop (vertical).
C8_AccentTracksActiveTab ==
  (mounted /\ pendingEffects = {} /\ Cardinality(ActiveTabs) = 1) =>
    LET d == NodeOfChild(CHOOSE c \in ActiveTabs : TRUE)
    IN  /\ accentLayout.length =
             IF orientation = "horizontal" THEN clientWidth(d) ELSE clientHeight(d)
        /\ accentLayout.distance \in
             IF orientation = "vertical" THEN {offsetTop(d)}
             ELSE IF direction = "rtl"
                  THEN {0 - (width - offsetLeft(d) - clientWidth(d)) :
                          width \in scrollWidth}
                  ELSE {offsetLeft(d)}

----------------------------------------------------------------------------
\* C9: the effects of the first display issue one instant scroll request for
\* the active tab (block start, inline center) and no smooth one; the
\* effects of a later pass that changed activeTabKey issue exactly one
\* smooth request (block nearest, inline nearest) for the newly active tab;
\* a pass that did not change activeTabKey schedules no effect and issues no
\* request; every request is for the element that pass committed.
C9_ScrollRequestsFollowPasses ==
  /\ (last.kind = "effects" /\ "mountScroll" \in last.ran /\ activeTabRef # 0) =>
       scrollLog = <<ScrollCall(activeTabRef, "auto", "start", "center")>>
  /\ (last.kind = "effects" /\ "mountScroll" \notin last.ran /\ activeTabRef # 0) =>
       scrollLog = <<ScrollCall(activeTabRef, "smooth", "nearest", "nearest")>>
  /\ (last.kind = "update" /\ pendingEffects = {}) => scrollLog = <<>>
  /\ \A n \in 1..Len(scrollLog) : scrollLog[n].node = activeTabRef

----------------------------------------------------------------------------
\* C10: whenever activeTabKey matches no tab's key, also after a key that
\* did match one, no tab and no panel is rendered active, accentLayout is
\* the default {length: 0, distance: 0}, the effects of the pass measure and
\* scroll nothing, no error is raised, and arrow keys and clicks still work:
\* an arrow key moves focus circularly over N >= 2 tabs and a click selects
\* the clicked tab's key.
C10_UnmatchedKeyDegradesGracefully ==
  (mounted /\ pendingEffects = {} /\ activeTabKey \notin KeySet) =>
    /\ ActiveTabs = {} /\ ActivePanels = {}
    /\ activeTabRef = 0
    /\ accentLayout = DefaultLayout
    /\ scrollLog = <<>>
    /\ ~last.threw
    /\ (ArrowPress /\ NumTabs >= 2) =>
         focus = IF last.keyCode = 39 THEN NextTab(last.target)
                 ELSE PreviousTab(last.target)
    /\ last.kind = "click" =>
         last.calls = <<SelectCall(ChildKey(ChildOfNode(last.target)))>>

====
